---- MODULE Spec2Model ----
(***************************************************************************)
(* raptor: parallel construction of the (partitioned) IBF index            *)
(* (index_factory, call_parallel_on_bins) and the two query flows          *)
(* (search_singular_ibf, search_partitioned_ibf).                          *)
(***************************************************************************)
EXTENDS Integers, Sequences, FiniteSets, TLC

(***************************************************************************)
(* Bounds of the model.                                                    *)
(***************************************************************************)
NumBins == 2          \* arguments.bin_path.size(): user bins = technical bins
MaxThreads == 2       \* largest arguments.threads
MaxParts == 3         \* largest arguments.parts
MaxHash == 3          \* hash values are 0..MaxHash
NumRows == 4          \* N: rows of the bit matrix per hash function
NumDatasets == 2      \* alternative contents of the user bins

(***************************************************************************)
(* Constants of the index structure.                                       *)
(***************************************************************************)
WordBits == 64        \* bits of one machine word of the bit matrix
HashFns == 2          \* H: hash functions of the IBF

Bins == 0 .. NumBins - 1
Hashes == 0 .. MaxHash
Thr == 1 .. MaxThreads

\* the partition counts of a partitioned index: parts = P > 1
PartCounts == 2 .. MaxParts

Max(a, b) == IF a >= b THEN a ELSE b
Min(a, b) == IF a <= b THEN a ELSE b
CeilDiv(a, b) == (a + b - 1) \div b

(***************************************************************************)
(* partition_config::hash_partition: the shard of the hash space.          *)
(***************************************************************************)
hash_partition(h, P) == h % P

RECURSIVE SelectSeqBy(_, _, _)
\* the filter [&](hash) { return hash_partition(hash) == part; } over a sequence
SelectSeqBy(s, P, p) ==
    IF s = <<>> THEN <<>>
    ELSE IF hash_partition(Head(s), P) = p THEN <<Head(s)>> \o SelectSeqBy(Tail(s), P, p)
         ELSE SelectSeqBy(Tail(s), P, p)

(***************************************************************************)
(* The interleaved Bloom filter.  The bin count is rounded up to a         *)
(* multiple of the word size; bit (row, bin) lives at offset               *)
(* row * BinsRounded + bin, so the bins of one row share words.            *)
(***************************************************************************)
BinsRounded == CeilDiv(NumBins, WordBits) * WordBits
NumWords == (NumRows * BinsRounded) \div WordBits
Words == 0 .. NumWords - 1

\* redistribute_i(h) mod N: the row of hash h under hash function k
Row(k, h) == (h * (k + 1) + k) % NumRows
BitOffset(row, bin) == row * BinsRounded + bin
WordOf(row, bin) == BitOffset(row, bin) \div WordBits
BitOf(row, bin) == BitOffset(row, bin) % WordBits

EmptyIbf == [w \in Words |-> {}]

\* interleaved_bloom_filter::emplace, executed without interference
Emplace(ibf, h, bin) ==
    [w \in Words |->
        ibf[w] \cup {BitOf(Row(k, h), bin) : k \in {k \in 0 .. HashFns - 1 : WordOf(Row(k, h), bin) = w}}]

\* does the filter report hash h for bin b (all H bits set)?
Contains(ibf, h, bin) ==
    \A k \in 0 .. HashFns - 1 : BitOf(Row(k, h), bin) \in ibf[WordOf(Row(k, h), bin)]

RECURSIVE CountOcc(_, _, _)
CountOcc(ibf, hs, bin) ==
    IF hs = <<>> THEN 0
    ELSE (IF Contains(ibf, Head(hs), bin) THEN 1 ELSE 0) + CountOcc(ibf, Tail(hs), bin)

\* counting_agent::bulk_count: per bin, the number of hashes of hs the filter reports
bulk_count(ibf, hs) == [b \in Bins |-> CountOcc(ibf, hs, b)]

(***************************************************************************)
(* Contents of the user bins: the hashes the reader yields for bin u.      *)
(***************************************************************************)
BinFile(d, u) == << (u + d) % (MaxHash + 1), (u + d + 3) % (MaxHash + 1) >>

VARIABLES
    b_data,      \* which dataset the bin files hold
    b_threads,   \* arguments.threads of the build
    b_parts,     \* 0: no partition_config (flat build); P >= 2: partitioned build
    b_pc,        \* "call" | "parallel" | "done"
    b_part,      \* the part under construction
    b_index,     \* raptor_index under construction: word -> set of bits
    b_built,     \* the indexes returned so far, in order of part
    b_next,      \* first loop iteration not yet handed to a thread
    b_thr,       \* per thread: position in call_parallel_on_bins' loop
    b_calls,     \* how often the worker was invoked with each element of zipped_view
    b_ins        \* the emplace calls made so far: <<part, bin, hash>>

bvars == <<b_data, b_threads, b_parts, b_pc, b_part, b_index, b_built, b_next, b_thr,
           b_calls, b_ins>>

VARIABLES
    s_data,          \* which dataset the loaded index was built from
    s_threads,       \* arguments.threads of the search
    s_parts,         \* arguments.parts
    header_written,  \* the function-local statics, one per search function
    s_run,           \* number of query runs started in this process
    s_flow,          \* "singular" | "partitioned": the function the run executes
    s_nrec,          \* number of records of the run's query file
    s_fin,           \* records of the query file not yet read (ids, in file order)
    s_chunk,         \* number of chunks the run has started
    s_pc,            \* position of the run's main thread
    records,         \* the chunk's records after the shuffle (ids)
    s_index,         \* the raptor_index object: word -> set of bits
    s_loaded,        \* what s_index holds: "none" | "flat" | a part number
    s_load,          \* "none" | "loading" | "done": state of the latest load_index
    s_fvalid,        \* cereal_future.valid()
    part,            \* size_t part
    counts,          \* std::vector<counting_vector<uint16_t>> counts
    counter_id,      \* size_t counter_id of the running task
    minimiser,       \* std::vector<uint64_t> minimiser of the running task
    s_buffer,        \* result buffer of the task's counting agent
    result_string,   \* std::string result_string of output_task
    s_next,          \* first loop iteration not yet handed to a thread
    s_thr,           \* per thread: position and locals inside the parallel loop
    out,             \* lines handed to synced_out (their order is left open)
    s_loads,         \* the parts load_index has loaded for the current chunk, in order
    s_counted        \* per task, part and iteration of the current chunk: bulk_count calls

svars == <<s_data, s_threads, s_parts, header_written, s_run, s_flow, s_nrec, s_fin,
           s_chunk, s_pc, records, s_index, s_loaded, s_load, s_fvalid, part, counts,
           counter_id, minimiser, s_buffer, result_string, s_next, s_thr, out,
           s_loads, s_counted>>

VARIABLES
    p_data,      \* which dataset the bin files hold
    p_threads,   \* arguments.threads of prepare
    p_size,      \* size class of the input files, which decides the cutoffs
    p_prev,      \* how the previous call ended: "none" | "done" | "killed"
    p_pc,        \* "idle" | "parallel" | "done" | "killed"
    p_min,       \* per bin, the .minimiser file: [ex, data]
    p_hdr,       \* per bin, the .header file: [ex, line]
    p_prog,      \* per bin: does the .in_progress file exist?
    p_list,      \* does minimiser.list exist?
    p_next,      \* first loop iteration not yet handed to a thread
    p_thr,       \* per thread: position and locals inside the loop over the bins
    p_check,     \* per bin, what the running call decided at its check and, until the
                 \* iteration opens its first output, which files the check found
    p_wrote      \* per bin, the output files the running call has opened for writing

\* the occurrence counting of one input file
VARIABLES
    minimiser_table, \* robin_hood::unordered_map<uint64_t, uint8_t>: 0 = no entry yet
    hash_calls       \* how often for_each_hash has called the lambda with each hash

tablev == <<minimiser_table, hash_calls>>

\* the hashes the counted file yields; the entries of the table are independent
CountedHashes == {0, 1}

pvars == <<p_data, p_threads, p_size, p_prev, p_pc, p_min, p_hdr, p_prog, p_list,
           p_next, p_thr, p_check, p_wrote, tablev>>

vars == <<bvars, svars, pvars>>

NoFile == [ex |-> FALSE, data |-> <<>>]
NoHeader == [ex |-> FALSE, line |-> <<>>]
NoCheck == [seen |-> FALSE, skip |-> FALSE, min |-> FALSE, hdr |-> FALSE, prog |-> FALSE]
IdlePrep == [pc |-> "idle", i |-> 0, hi |-> 0, todo |-> <<>>, count |-> 0]

\* an empty output directory and no call running
PrepIdle ==
    /\ p_prev = "none"
    /\ minimiser_table = [h \in CountedHashes |-> 0]
    /\ hash_calls = [h \in CountedHashes |-> 0]
    /\ p_pc = "idle"
    /\ p_min = [u \in Bins |-> NoFile]
    /\ p_hdr = [u \in Bins |-> NoHeader]
    /\ p_prog = [u \in Bins |-> FALSE]
    /\ p_list = FALSE
    /\ p_next = 0
    /\ p_thr = [t \in Thr |-> IdlePrep]
    /\ p_check = [u \in Bins |-> NoCheck]
    /\ p_wrote = [u \in Bins |-> {}]

IdleThread == [pc |-> "idle", i |-> 0, hi |-> 0, todo |-> <<>>, k |-> 0, word |-> {}]

\* zipped_view[i]: bin_paths[i] together with the i-th value of iota(0, number_of_bins)
Zipped(i) == <<i, i>>
NoCalls == [z \in Bins \X Bins |-> 0]

BuildInit ==
    /\ b_data \in 0 .. NumDatasets - 1
    /\ b_threads \in 1 .. MaxThreads
    /\ b_parts \in {0} \cup PartCounts
    /\ b_pc = "call"
    /\ b_part = 0
    /\ b_index = EmptyIbf
    /\ b_built = <<>>
    /\ b_next = 0
    /\ b_thr = [t \in Thr |-> IdleThread]
    /\ b_calls = NoCalls
    /\ b_ins = {}

\* a worker that inserts every hash of the bin's files, whatever the part
WorkerHashesAll(u) == BinFile(b_data, u)

\* the hashes the worker inserts for bin u: hash_into, or hash_into_if with the
\* partition predicate
WorkerHashes(u) ==
    IF b_parts = 0 THEN BinFile(b_data, u)
    ELSE SelectSeqBy(BinFile(b_data, u), b_parts, b_part)

\* schedule(guided): the next chunk is the remaining iterations divided by the
\* number of threads, at least one iteration
GuidedChunk(remaining, threads) == Max(1, CeilDiv(remaining, threads))

\* index_factory::construct up to the parallel loop: allocate a zeroed index
Construct ==
    /\ b_pc = "call"
    /\ b_index' = EmptyIbf
    /\ b_next' = 0
    /\ b_thr' = [t \in Thr |-> IdleThread]
    /\ b_pc' = "parallel"
    /\ b_calls' = NoCalls
    /\ UNCHANGED <<svars, pvars>>
    /\ UNCHANGED <<b_data, b_threads, b_parts, b_part, b_built, b_ins>>

\* a loop that starts every chunk one bin late
AtBinSkip(i, hi) ==
    IF i + 1 >= hi THEN IdleThread
    ELSE [pc |-> "bin", i |-> i + 1, hi |-> hi, todo |-> <<>>, k |-> 0, word |-> {}]

\* position of a thread that is about to handle bin i of its chunk [i, hi)
AtBin(i, hi) ==
    IF i >= hi THEN IdleThread
    ELSE [pc |-> "bin", i |-> i, hi |-> hi, todo |-> <<>>, k |-> 0, word |-> {}]

\* a thread of the team takes the next chunk of the loop over the bins; idle threads
\* are interchangeable, so the lowest-numbered idle one stands for them all
BGrab(t) ==
    /\ b_pc = "parallel"
    /\ t <= b_threads
    /\ b_thr[t].pc = "idle"
    /\ \A u \in 1 .. t - 1 : b_thr[u].pc # "idle"
    /\ b_next < NumBins
    /\ LET q == GuidedChunk(NumBins - b_next, b_threads) IN
        /\ b_next' = b_next + q
        /\ b_thr' = [b_thr EXCEPT ![t] = AtBin(b_next, b_next + q)]
    /\ UNCHANGED <<svars, pvars>>
    /\ UNCHANGED <<b_data, b_threads, b_parts, b_pc, b_part, b_index, b_built, b_calls, b_ins>>

\* std::invoke(worker, zipped_view[i]): the reader starts to stream bin i
BInvoke(t) ==
    /\ b_pc = "parallel"
    /\ b_thr[t].pc = "bin"
    /\ LET hs == WorkerHashes(b_thr[t].i) IN
        b_thr' = [b_thr EXCEPT ![t] =
                    IF hs = <<>> THEN AtBin(b_thr[t].i + 1, b_thr[t].hi)
                    ELSE [@ EXCEPT !.pc = "read", !.todo = hs, !.k = 0]]
    /\ UNCHANGED <<svars, pvars>>
    /\ b_calls' = [b_calls EXCEPT ![Zipped(b_thr[t].i)] = @ + 1]
    /\ UNCHANGED <<b_data, b_threads, b_parts, b_pc, b_part, b_index, b_built, b_next, b_ins>>

\* emplace, first half: load the word that holds bit (row, bin)
BRead(t) ==
    /\ b_pc = "parallel"
    /\ b_thr[t].pc = "read"
    /\ LET me == b_thr[t]
           w == WordOf(Row(me.k, Head(me.todo)), me.i)
       IN b_thr' = [b_thr EXCEPT ![t] = [@ EXCEPT !.pc = "write", !.word = b_index[w]]]
    /\ UNCHANGED <<svars, pvars>>
    /\ UNCHANGED <<b_data, b_threads, b_parts, b_pc, b_part, b_index, b_built, b_next,
                   b_calls, b_ins>>

\* emplace, second half: store the loaded word with the bit set
BWrite(t) ==
    /\ b_pc = "parallel"
    /\ b_thr[t].pc = "write"
    /\ LET me == b_thr[t]
           row == Row(me.k, Head(me.todo))
           w == WordOf(row, me.i)
       IN /\ b_index' = [b_index EXCEPT ![w] = me.word \cup {BitOf(row, me.i)}]
          /\ b_thr' = [b_thr EXCEPT ![t] =
                IF me.k + 1 < HashFns
                THEN [@ EXCEPT !.pc = "read", !.k = me.k + 1, !.word = {}]
                ELSE IF Len(me.todo) > 1
                THEN [@ EXCEPT !.pc = "read", !.k = 0, !.todo = Tail(me.todo), !.word = {}]
                ELSE AtBin(me.i + 1, me.hi)]
          /\ b_ins' = b_ins \cup {<<b_part, me.i, Head(me.todo)>>}
    /\ UNCHANGED <<svars, pvars>>
    /\ UNCHANGED <<b_data, b_threads, b_parts, b_pc, b_part, b_built, b_next, b_calls>>

\* end of the parallel loop (implicit barrier); construct returns the index
BReturn ==
    /\ b_pc = "parallel"
    /\ b_next = NumBins
    /\ \A t \in Thr : b_thr[t].pc = "idle"
    /\ b_built' = Append(b_built, b_index)
    /\ IF b_parts = 0 \/ b_part + 1 >= b_parts
       THEN b_pc' = "done" /\ b_part' = b_part
       ELSE b_pc' = "call" /\ b_part' = b_part + 1
    /\ UNCHANGED <<svars, pvars>>
    /\ UNCHANGED <<b_data, b_threads, b_parts, b_index, b_next, b_thr, b_calls, b_ins>>

BuildNext ==
    \/ Construct
    \/ \E t \in Thr : BGrab(t)
    \/ \E t \in Thr : BInvoke(t)
    \/ \E t \in Thr : BRead(t)
    \/ \E t \in Thr : BWrite(t)
    \/ BReturn


(***************************************************************************)
(* The query flows.                                                        *)
(***************************************************************************)
MaxRecords == 3       \* largest number of records of a query file
ChunkLen == 2         \* records per chunk of the query file (stands for 10 * 2^20)
MaxRuns == 2          \* query runs executed one after the other in one process

Flows == {"singular", "partitioned"}

RECURSIVE EmplaceAll(_, _, _)
EmplaceAll(ibf, hs, bin) ==
    IF hs = <<>> THEN ibf ELSE EmplaceAll(Emplace(ibf, Head(hs), bin), Tail(hs), bin)

RECURSIVE FillBins(_, _, _, _, _)
\* the index a build without interference leaves behind: bins u .. NumBins-1 filled with
\* their hashes (P = 0), or with their hashes of partition p (P >= 2)
FillBins(ibf, d, P, p, u) ==
    IF u >= NumBins THEN ibf
    ELSE FillBins(EmplaceAll(ibf,
                             IF P = 0 THEN BinFile(d, u) ELSE SelectSeqBy(BinFile(d, u), P, p),
                             u),
                  d, P, p, u + 1)

\* load_index(index, arguments): the stored un-partitioned index
FlatIndex(d) == FillBins(EmptyIbf, d, 0, 0, 0)
\* load_index(index, arguments, part): the stored index of one part
PartIndex(d, P, p) == FillBins(EmptyIbf, d, P, p, 0)

\* the minimisers seqan3::views::minimiser_hash yields for the record with id r
RecMin(r) == [j \in 1 .. 1 + (r % 3) |-> (r + 2 * (j - 1)) % (MaxHash + 1)]

\* threshold::get(minimiser_count): percentage mode with ratio 1/2, at least 1
ThresholdGet(n) == Max(1, CeilDiv(n, 2))

RECURSIVE Reverse(_)
Reverse(q) == IF q = <<>> THEN <<>> ELSE Append(Reverse(Tail(q)), Head(q))
\* std::ranges::shuffle(records, std::mt19937_64{0u}): a fixed permutation
Shuffle(q) == Reverse(q)

ZeroCounts == [b \in Bins |-> 0]
\* counting_vector::operator+=
AddCounts(a, c) == [b \in Bins |-> a[b] + c[b]]

\* characters of a line, as tokens
IdTok(r) == [k |-> "id", v |-> r]
TabTok == [k |-> "tab", v |-> 0]
BinTok(b) == [k |-> "bin", v |-> b]
CommaTok == [k |-> "comma", v |-> 0]
NlTok == [k |-> "nl", v |-> 0]
HeaderLine == << [k |-> "header", v |-> 0] >>

RECURSIVE HitTokens(_, _, _)
\* for (auto && count : result) if (count >= threshold) { += to_string(current_bin); += ','; }
HitTokens(cnt, tau, b) ==
    IF b >= NumBins THEN <<>>
    ELSE (IF cnt[b] >= tau THEN <<BinTok(b), CommaTok>> ELSE <<>>) \o HitTokens(cnt, tau, b + 1)

\* if (last_char == ',') last_char = '\n'; else result_string += '\n';
CloseLine(rs) ==
    IF rs # <<>> /\ rs[Len(rs)] = CommaTok
    THEN [rs EXCEPT ![Len(rs)] = NlTok]
    ELSE Append(rs, NlTok)

Tasks == {"count_task", "output_task"}
NoCounted == [c \in Tasks \X (0 .. MaxParts - 1) \X (0 .. ChunkLen - 1) |-> 0]

IdleWorker == [pc |-> "idle", i |-> 0, hi |-> 0, tau |-> 0, acc |-> ZeroCounts, line |-> <<>>]

SearchIdle ==
    /\ header_written = [f \in Flows |-> FALSE]
    /\ s_run = 0
    /\ s_flow = "singular"
    /\ s_nrec = 0
    /\ s_fin = <<>>
    /\ s_chunk = 0
    /\ s_pc = "idle"
    /\ records = <<>>
    /\ s_index = EmptyIbf
    /\ s_loaded = "none"
    /\ s_load = "none"
    /\ s_fvalid = FALSE
    /\ part = 0
    /\ counts = <<>>
    /\ counter_id = 0
    /\ minimiser = <<>>
    /\ s_buffer = ZeroCounts
    /\ result_string = <<>>
    /\ s_next = 0
    /\ s_thr = [t \in Thr |-> IdleWorker]
    /\ out = {}
    /\ s_loads = <<>>
    /\ s_counted = NoCounted

BuildIdle ==
    /\ b_pc = "done"
    /\ b_part = 0
    /\ b_index = EmptyIbf
    /\ b_built = <<>>
    /\ b_next = 0
    /\ b_thr = [t \in Thr |-> IdleThread]
    /\ b_calls = NoCalls
    /\ b_ins = {}

SearchInit ==
    /\ s_data \in 0 .. NumDatasets - 1
    /\ s_threads \in 1 .. MaxThreads
    /\ s_parts \in PartCounts
    /\ SearchIdle
    /\ b_data = s_data /\ b_threads = 1 /\ b_parts = 0
    /\ BuildIdle
    /\ p_data = s_data /\ p_threads = 1 /\ p_size = 0
    /\ PrepIdle

cfgv == <<s_data, s_threads, s_parts>>
runv == <<s_run, s_flow, s_nrec, s_fin, s_chunk>>
idxv == <<s_index, s_loaded, s_load, s_fvalid>>
taskv == <<counts, counter_id, minimiser, s_buffer, result_string>>
ompv == <<s_next, s_thr>>
histv == <<s_loads, s_counted>>

\* a query run starts: search_singular_ibf launches its asynchronous load at once,
\* search_partitioned_ibf default-constructs its index; both open a fresh output
StartRun(flow, n) ==
    /\ s_pc \in {"idle", "done"}
    /\ s_run < MaxRuns
    /\ s_run' = s_run + 1
    /\ s_flow' = flow
    /\ s_nrec' = n
    /\ s_fin' = [j \in 1 .. n |-> j]
    /\ s_chunk' = 0
    /\ records' = <<>>
    /\ out' = {}
    /\ s_index' = EmptyIbf
    /\ s_loaded' = "none"
    /\ s_load' = IF flow = "singular" THEN "loading" ELSE "none"
    /\ s_fvalid' = (flow = "singular")
    /\ s_pc' = "loop"
    /\ s_loads' = <<>>
    /\ s_counted' = NoCounted
    /\ UNCHANGED <<cfgv, header_written, part, taskv, ompv, bvars, pvars>>

\* head of the loop over the chunks, no chunk left: the function returns (the
\* destructor of a future from std::async waits for the load) and its locals end
RunReturn ==
    /\ s_pc = "loop"
    /\ s_fin = <<>>
    /\ s_load # "loading"
    /\ s_pc' = "done"
    /\ records' = <<>>
    /\ s_index' = EmptyIbf /\ s_loaded' = "none" /\ s_load' = "none" /\ s_fvalid' = FALSE
    /\ part' = 0
    /\ counts' = <<>> /\ counter_id' = 0 /\ minimiser' = <<>> /\ s_buffer' = ZeroCounts
    /\ result_string' = <<>>
    /\ s_next' = 0 /\ s_thr' = [t \in Thr |-> IdleWorker]
    /\ s_loads' = <<>>
    /\ s_counted' = NoCounted
    /\ UNCHANGED <<cfgv, header_written, runv, out, bvars, pvars>>

\* head of the loop, next chunk: (partitioned: launch the load of part 0;) clear,
\* move and shuffle the records
ChunkBegin ==
    /\ s_pc = "loop"
    /\ s_fin # <<>>
    /\ LET n == Min(ChunkLen, Len(s_fin)) IN
        /\ records' = Shuffle(SubSeq(s_fin, 1, n))
        /\ s_fin' = SubSeq(s_fin, n + 1, Len(s_fin))
    /\ s_chunk' = s_chunk + 1
    /\ IF s_flow = "partitioned"
       THEN s_load' = "loading" /\ s_fvalid' = TRUE /\ s_index' = EmptyIbf /\ s_loaded' = "none"
       ELSE UNCHANGED idxv
    /\ s_pc' = "get"
    /\ s_loads' = <<>>
    /\ s_counted' = NoCounted
    /\ UNCHANGED <<cfgv, header_written, s_run, s_flow, s_nrec, part, taskv, ompv, out, bvars, pvars>>

\* the task of std::async finishes load_index
AsyncLoadDone ==
    /\ s_load = "loading"
    /\ s_pc # "loading"
    /\ s_index' = IF s_flow = "singular" THEN FlatIndex(s_data) ELSE PartIndex(s_data, s_parts, 0)
    /\ s_loaded' = IF s_flow = "singular" THEN "flat" ELSE 0
    /\ s_load' = "done"
    /\ s_loads' = IF s_flow = "singular" THEN s_loads ELSE Append(s_loads, 0)
    /\ UNCHANGED <<cfgv, header_written, runv, s_pc, records, s_fvalid, part, taskv, ompv, out, bvars, pvars, s_counted>>

\* a get() that returns without waiting for the load
FutureGetNoWait ==
    /\ s_pc = "get"
    /\ s_fvalid
    /\ s_fvalid' = FALSE
    /\ s_pc' = "header"
    /\ UNCHANGED <<cfgv, header_written, runv, records, s_index, s_loaded, s_load, part,
                   taskv, ompv, out, bvars, pvars, histv>>

\* cereal_future.get() on a valid future: blocks until the load is done
FutureGet ==
    /\ s_pc = "get"
    /\ s_fvalid
    /\ s_load = "done"
    /\ s_fvalid' = FALSE
    /\ s_pc' = "header"
    /\ UNCHANGED <<cfgv, header_written, runv, records, s_index, s_loaded, s_load, part,
                   taskv, ompv, out, bvars, pvars, histv>>

\* cereal_future.get() on a future whose result was taken: std::future_error
FutureGetInvalid ==
    /\ s_pc = "get"
    /\ ~s_fvalid
    /\ s_pc' = "aborted"
    /\ UNCHANGED <<cfgv, header_written, runv, records, idxv, part, taskv, ompv, out, bvars, pvars, histv>>

\* static bool header_written = write_header();  initialised once per process
WriteHeader ==
    /\ s_pc = "header"
    /\ IF header_written[s_flow]
       THEN UNCHANGED <<header_written, out>>
       ELSE /\ header_written' = [header_written EXCEPT ![s_flow] = TRUE]
            /\ out' = out \cup {[chunk |-> s_chunk, by |-> 0, text |-> HeaderLine, tau |-> 0,
                                  acc |-> ZeroCounts, pos |-> Cardinality(out)]}
    /\ s_pc' = IF s_flow = "singular" THEN "do_parallel" ELSE "counts"
    /\ UNCHANGED <<cfgv, runv, records, idxv, part, taskv, ompv, bvars, pvars, histv>>

\* counts(records.size(), counting_vector(bin_count, 0)); size_t part{};
InitCounts ==
    /\ s_pc = "counts"
    /\ counts' = [j \in 1 .. Len(records) |-> ZeroCounts]
    /\ part' = 0
    /\ s_pc' = "count_task"
    /\ UNCHANGED <<cfgv, header_written, runv, records, idxv, counter_id, minimiser, s_buffer,
                   result_string, ompv, out, bvars, pvars, histv>>

\* count_task(): the locals declared before the parallel loop
CountTaskBegin ==
    /\ s_pc = "count_task"
    /\ counter_id' = 0
    /\ minimiser' = <<>>
    /\ s_buffer' = ZeroCounts
    /\ s_next' = 0
    /\ s_thr' = [t \in Thr |-> IdleWorker]
    /\ s_pc' = "count_par"
    /\ UNCHANGED <<cfgv, header_written, runv, records, idxv, part, counts, result_string,
                   out, bvars, pvars, histv>>

\* a count_task after which part is incremented twice
CountTaskEndTwice ==
    /\ s_pc = "count_par"
    /\ s_next >= Len(records)
    /\ \A t \in Thr : s_thr[t].pc = "idle"
    /\ part' = part + 2
    /\ counter_id' = 0 /\ minimiser' = <<>> /\ s_buffer' = ZeroCounts
    /\ s_pc' = "load"
    /\ UNCHANGED <<cfgv, header_written, runv, records, idxv, counts, result_string, ompv,
                   out, bvars, pvars, histv>>

\* a count_task after which part is not incremented
CountTaskEndStay ==
    /\ s_pc = "count_par"
    /\ s_next >= Len(records)
    /\ \A t \in Thr : s_thr[t].pc = "idle"
    /\ part' = part
    /\ counter_id' = 0 /\ minimiser' = <<>> /\ s_buffer' = ZeroCounts
    /\ s_pc' = "load"
    /\ UNCHANGED <<cfgv, header_written, runv, records, idxv, counts, result_string, ompv,
                   out, bvars, pvars, histv>>

\* all iterations done (implicit barrier), count_task returns and its locals end; ++part
CountTaskEnd ==
    /\ s_pc = "count_par"
    /\ s_next >= Len(records)
    /\ \A t \in Thr : s_thr[t].pc = "idle"
    /\ part' = part + 1
    /\ counter_id' = 0 /\ minimiser' = <<>> /\ s_buffer' = ZeroCounts
    /\ s_pc' = "load"
    /\ UNCHANGED <<cfgv, header_written, runv, records, idxv, counts, result_string, ompv,
                   out, bvars, pvars, histv>>

\* load_index(index, arguments, part) on the main thread starts to overwrite the index
LoadIndexBegin ==
    /\ s_pc = "load"
    /\ s_load' = "loading"
    /\ s_index' = EmptyIbf
    /\ s_loaded' = "none"
    /\ s_pc' = "loading"
    /\ UNCHANGED <<cfgv, header_written, runv, records, s_fvalid, part, taskv, ompv, out, bvars, pvars, histv>>

\* load_index returns; the loop runs count_task while part < parts - 1, then output_task
LoadIndexEnd ==
    /\ s_pc = "loading"
    /\ s_index' = PartIndex(s_data, s_parts, part)
    /\ s_loaded' = part
    /\ s_load' = "done"
    /\ s_pc' = IF part < s_parts - 1 THEN "count_task" ELSE "output_task"
    /\ s_loads' = Append(s_loads, part)
    /\ UNCHANGED <<cfgv, header_written, runv, records, s_fvalid, part, taskv, ompv, out, bvars, pvars, s_counted>>

\* output_task(): the locals declared before the parallel loop
OutputTaskBegin ==
    /\ s_pc = "output_task"
    /\ counter_id' = 0
    /\ minimiser' = <<>>
    /\ s_buffer' = ZeroCounts
    /\ result_string' = <<>>
    /\ s_next' = 0
    /\ s_thr' = [t \in Thr |-> IdleWorker]
    /\ s_pc' = "output_par"
    /\ UNCHANGED <<cfgv, header_written, runv, records, idxv, part, counts, out, bvars, pvars, histv>>

\* all iterations done, output_task returns; the locals of the task and of the loop
\* body (counts, part) end; next chunk
OutputTaskEnd ==
    /\ s_pc = "output_par"
    /\ s_next >= Len(records)
    /\ \A t \in Thr : s_thr[t].pc = "idle"
    /\ counts' = <<>> /\ counter_id' = 0 /\ minimiser' = <<>> /\ s_buffer' = ZeroCounts
    /\ result_string' = <<>>
    /\ part' = 0
    /\ s_pc' = "loop"
    /\ UNCHANGED <<cfgv, header_written, runv, records, idxv, ompv, out, bvars, pvars, histv>>

\* do_parallel(worker, records.size(), arguments.threads)
DoParallelBegin ==
    /\ s_pc = "do_parallel"
    /\ s_next' = 0
    /\ s_thr' = [t \in Thr |-> IdleWorker]
    /\ s_pc' = "singular_par"
    /\ UNCHANGED <<cfgv, header_written, runv, records, idxv, part, taskv, out, bvars, pvars, histv>>

\* every worker returned; next chunk
DoParallelEnd ==
    /\ s_pc = "singular_par"
    /\ s_next >= Len(records)
    /\ \A t \in Thr : s_thr[t].pc = "idle"
    /\ s_pc' = "loop"
    /\ UNCHANGED <<cfgv, header_written, runv, records, idxv, part, taskv, ompv, out, bvars, pvars, histv>>

(***************************************************************************)
(* The threads of the parallel loops over the records.  Everything the     *)
(* tasks declare before their loop (counter, counter_id, minimiser,        *)
(* result_string) is one object shared by the team; the worker of the      *)
(* singular flow declares its objects inside the call.                     *)
(***************************************************************************)
ParallelPcs == {"count_par", "output_par", "singular_par"}

FirstPc ==
    CASE s_pc = "count_par" -> "c_min"
      [] s_pc = "output_par" -> "o_start"
      [] OTHER -> "s_work"

\* position of a thread that is about to run iteration i of its chunk [i, hi)
AtIter(i, hi) ==
    IF i >= hi THEN IdleWorker
    ELSE [pc |-> FirstPc, i |-> i, hi |-> hi, tau |-> 0, acc |-> ZeroCounts, line |-> <<>>]

\* the record of the iteration thread t runs: records[i]
Rec(t) == records[s_thr[t].i + 1]

\* what synced_out receives: the line, with the chunk and record of the iteration that
\* wrote it, the threshold and counts that iteration compared, and the number of
\* lines written before it
OutEntry(r, text, tau, acc) ==
    [chunk |-> s_chunk, by |-> r, text |-> text, tau |-> tau, acc |-> acc, pos |-> 0]

\* a thread of the team takes the next chunk of iterations (schedule(guided)); idle
\* threads are interchangeable, so the lowest-numbered idle one stands for them all
SGrab(t) ==
    /\ s_pc \in ParallelPcs
    /\ t <= s_threads
    /\ s_thr[t].pc = "idle"
    /\ \A u \in 1 .. t - 1 : s_thr[u].pc # "idle"
    /\ s_next < Len(records)
    /\ LET q == GuidedChunk(Len(records) - s_next, s_threads) IN
        /\ s_next' = s_next + q
        /\ s_thr' = [s_thr EXCEPT ![t] = AtIter(s_next, s_next + q)]
    /\ UNCHANGED <<cfgv, header_written, runv, s_pc, records, idxv, part, taskv, out, bvars, pvars, histv>>

\* count_task: minimiser.assign(minimiser_view.begin(), minimiser_view.end())
CMin(t) ==
    /\ s_thr[t].pc = "c_min"
    /\ minimiser' = RecMin(Rec(t))
    /\ s_thr' = [s_thr EXCEPT ![t].pc = "c_bulk"]
    /\ UNCHANGED <<cfgv, header_written, runv, s_pc, records, idxv, part, counts, counter_id,
                   s_buffer, result_string, s_next, out, bvars, pvars, histv>>

\* count_task: counter.bulk_count(filtered), the filter reading minimiser and part
CBulk(t) ==
    /\ s_thr[t].pc = "c_bulk"
    /\ s_buffer' = bulk_count(s_index, SelectSeqBy(minimiser, s_parts, part))
    /\ s_thr' = [s_thr EXCEPT ![t].pc = "c_add"]
    /\ s_counted' = [s_counted EXCEPT ![<<"count_task", part, s_thr[t].i>>] = @ + 1]
    /\ UNCHANGED <<cfgv, header_written, runv, s_pc, records, idxv, part, counts, counter_id,
                   minimiser, result_string, s_next, out, bvars, pvars, s_loads>>

\* count_task: counts[counter_id++] += (the agent's result buffer)
CAdd(t) ==
    /\ s_thr[t].pc = "c_add"
    /\ counts' = [counts EXCEPT ![counter_id + 1] = AddCounts(@, s_buffer)]
    /\ counter_id' = counter_id + 1
    /\ s_thr' = [s_thr EXCEPT ![t] = AtIter(s_thr[t].i + 1, s_thr[t].hi)]
    /\ UNCHANGED <<cfgv, header_written, runv, s_pc, records, idxv, part, minimiser, s_buffer,
                   result_string, s_next, out, bvars, pvars, histv>>

\* output_task: result_string.clear(); result_string += id; result_string += '\t';
OStart(t) ==
    /\ s_thr[t].pc = "o_start"
    /\ result_string' = <<IdTok(Rec(t)), TabTok>>
    /\ s_thr' = [s_thr EXCEPT ![t].pc = "o_min"]
    /\ UNCHANGED <<cfgv, header_written, runv, s_pc, records, idxv, part, counts, counter_id,
                   minimiser, s_buffer, s_next, out, bvars, pvars, histv>>

\* output_task: minimiser.assign(...)
OMin(t) ==
    /\ s_thr[t].pc = "o_min"
    /\ minimiser' = RecMin(Rec(t))
    /\ s_thr' = [s_thr EXCEPT ![t].pc = "o_bulk"]
    /\ UNCHANGED <<cfgv, header_written, runv, s_pc, records, idxv, part, counts, counter_id,
                   s_buffer, result_string, s_next, out, bvars, pvars, histv>>

\* output_task: counter.bulk_count(filtered)
OBulk(t) ==
    /\ s_thr[t].pc = "o_bulk"
    /\ s_buffer' = bulk_count(s_index, SelectSeqBy(minimiser, s_parts, part))
    /\ s_thr' = [s_thr EXCEPT ![t].pc = "o_add"]
    /\ s_counted' = [s_counted EXCEPT ![<<"output_task", part, s_thr[t].i>>] = @ + 1]
    /\ UNCHANGED <<cfgv, header_written, runv, s_pc, records, idxv, part, counts, counter_id,
                   minimiser, result_string, s_next, out, bvars, pvars, s_loads>>

\* output_task: counts[counter_id] += (the agent's result buffer)
OAdd(t) ==
    /\ s_thr[t].pc = "o_add"
    /\ counts' = [counts EXCEPT ![counter_id + 1] = AddCounts(@, s_buffer)]
    /\ s_thr' = [s_thr EXCEPT ![t].pc = "o_thr"]
    /\ UNCHANGED <<cfgv, header_written, runv, s_pc, records, idxv, part, counter_id, minimiser,
                   s_buffer, result_string, s_next, out, bvars, pvars, histv>>

\* output_task: threshold = thresholder.get(minimiser.size())
OThr(t) ==
    /\ s_thr[t].pc = "o_thr"
    /\ s_thr' = [s_thr EXCEPT ![t].pc = "o_hits", ![t].tau = ThresholdGet(Len(minimiser))]
    /\ UNCHANGED <<cfgv, header_written, runv, s_pc, records, idxv, part, taskv, s_next, out, bvars, pvars, histv>>

\* output_task: the loop over counts[counter_id++] that appends the hit bins
OHits(t) ==
    /\ s_thr[t].pc = "o_hits"
    /\ LET cnt == counts[counter_id + 1] IN
        /\ result_string' = result_string \o HitTokens(cnt, s_thr[t].tau, 0)
        /\ s_thr' = [s_thr EXCEPT ![t].pc = "o_write", ![t].acc = cnt]
    /\ counter_id' = counter_id + 1
    /\ UNCHANGED <<cfgv, header_written, runv, s_pc, records, idxv, part, counts, minimiser,
                   s_buffer, s_next, out, bvars, pvars, histv>>

\* output_task: terminate the line and synced_out.write(result_string)
OWrite(t) ==
    /\ s_thr[t].pc = "o_write"
    /\ result_string' = CloseLine(result_string)
    /\ out' = out \cup {OutEntry(Rec(t), CloseLine(result_string), s_thr[t].tau, s_thr[t].acc)}
    /\ s_thr' = [s_thr EXCEPT ![t] = AtIter(s_thr[t].i + 1, s_thr[t].hi)]
    /\ UNCHANGED <<cfgv, header_written, runv, s_pc, records, idxv, part, counts, counter_id,
                   minimiser, s_buffer, s_next, bvars, pvars, histv>>

\* worker(record_id) of the singular flow up to the write: all objects are its own
SWork(t) ==
    /\ s_thr[t].pc = "s_work"
    /\ LET m == RecMin(Rec(t))
           tau == ThresholdGet(Len(m))
           result == bulk_count(s_index, m)
       IN s_thr' = [s_thr EXCEPT ![t].pc = "s_write", ![t].tau = tau, ![t].acc = result,
                       ![t].line = CloseLine(<<IdTok(Rec(t)), TabTok>> \o HitTokens(result, tau, 0))]
    /\ UNCHANGED <<cfgv, header_written, runv, s_pc, records, idxv, part, taskv, s_next, out, bvars, pvars, histv>>

\* worker(record_id): synced_out.write(result_string)
SWrite(t) ==
    /\ s_thr[t].pc = "s_write"
    /\ out' = out \cup {OutEntry(Rec(t), s_thr[t].line, s_thr[t].tau, s_thr[t].acc)}
    /\ s_thr' = [s_thr EXCEPT ![t] = AtIter(s_thr[t].i + 1, s_thr[t].hi)]
    /\ UNCHANGED <<cfgv, header_written, runv, s_pc, records, idxv, part, taskv, s_next, bvars, pvars, histv>>

SearchNext ==
    \/ \E f \in Flows, n \in 0 .. MaxRecords : StartRun(f, n)
    \/ RunReturn
    \/ ChunkBegin
    \/ AsyncLoadDone
    \/ FutureGet
    \/ FutureGetInvalid
    \/ WriteHeader
    \/ InitCounts
    \/ CountTaskBegin
    \/ CountTaskEnd
    \/ LoadIndexBegin
    \/ LoadIndexEnd
    \/ OutputTaskBegin
    \/ OutputTaskEnd
    \/ DoParallelBegin
    \/ DoParallelEnd
    \/ \E t \in Thr : SGrab(t)
    \/ \E t \in Thr : CMin(t)
    \/ \E t \in Thr : CBulk(t)
    \/ \E t \in Thr : CAdd(t)
    \/ \E t \in Thr : OStart(t)
    \/ \E t \in Thr : OMin(t)
    \/ \E t \in Thr : OBulk(t)
    \/ \E t \in Thr : OAdd(t)
    \/ \E t \in Thr : OThr(t)
    \/ \E t \in Thr : OHits(t)
    \/ \E t \in Thr : OWrite(t)
    \/ \E t \in Thr : SWork(t)
    \/ \E t \in Thr : SWrite(t)

(***************************************************************************)
(* The same loops with every iteration taken as one step: the order in     *)
(* which the iterations of different threads run stays open, what happens  *)
(* inside one iteration is not interleaved.  The claims about the order of *)
(* loads, tasks, chunks and runs are settled on this coarser behaviour.    *)
(***************************************************************************)
\* one iteration of count_task's loop
CountIteration(t) ==
    /\ s_thr[t].pc = "c_min"
    /\ LET m == RecMin(Rec(t))
           result == bulk_count(s_index, SelectSeqBy(m, s_parts, part))
       IN /\ minimiser' = m
          /\ s_buffer' = result
          /\ counts' = [counts EXCEPT ![counter_id + 1] = AddCounts(@, result)]
    /\ counter_id' = counter_id + 1
    /\ s_thr' = [s_thr EXCEPT ![t] = AtIter(s_thr[t].i + 1, s_thr[t].hi)]
    /\ s_counted' = [s_counted EXCEPT ![<<"count_task", part, s_thr[t].i>>] = @ + 1]
    /\ UNCHANGED <<cfgv, header_written, runv, s_pc, records, idxv, part, result_string,
                   s_next, out, bvars, pvars, s_loads>>

\* one iteration of output_task's loop
OutputIteration(t) ==
    /\ s_thr[t].pc = "o_start"
    /\ LET m == RecMin(Rec(t))
           result == bulk_count(s_index, SelectSeqBy(m, s_parts, part))
           cnt == AddCounts(counts[counter_id + 1], result)
           tau == ThresholdGet(Len(m))
           line == CloseLine(<<IdTok(Rec(t)), TabTok>> \o HitTokens(cnt, tau, 0))
       IN /\ minimiser' = m
          /\ s_buffer' = result
          /\ counts' = [counts EXCEPT ![counter_id + 1] = cnt]
          /\ result_string' = line
          /\ out' = out \cup {OutEntry(Rec(t), line, tau, cnt)}
    /\ counter_id' = counter_id + 1
    /\ s_thr' = [s_thr EXCEPT ![t] = AtIter(s_thr[t].i + 1, s_thr[t].hi)]
    /\ s_counted' = [s_counted EXCEPT ![<<"output_task", part, s_thr[t].i>>] = @ + 1]
    /\ UNCHANGED <<cfgv, header_written, runv, s_pc, records, idxv, part, s_next, bvars, pvars, s_loads>>

\* one call worker(record_id) of the singular flow
WorkerCall(t) ==
    /\ s_thr[t].pc = "s_work"
    /\ LET m == RecMin(Rec(t))
           tau == ThresholdGet(Len(m))
           result == bulk_count(s_index, m)
           line == CloseLine(<<IdTok(Rec(t)), TabTok>> \o HitTokens(result, tau, 0))
       IN out' = out \cup {OutEntry(Rec(t), line, tau, result)}
    /\ s_thr' = [s_thr EXCEPT ![t] = AtIter(s_thr[t].i + 1, s_thr[t].hi)]
    /\ UNCHANGED <<cfgv, header_written, runv, s_pc, records, idxv, part, taskv, s_next, bvars, pvars, histv>>

FlowNext ==
    \/ \E f \in Flows, n \in 0 .. MaxRecords : StartRun(f, n)
    \/ RunReturn
    \/ ChunkBegin
    \/ AsyncLoadDone
    \/ FutureGet
    \/ FutureGetInvalid
    \/ WriteHeader
    \/ InitCounts
    \/ CountTaskBegin
    \/ CountTaskEnd
    \/ LoadIndexBegin
    \/ LoadIndexEnd
    \/ OutputTaskBegin
    \/ OutputTaskEnd
    \/ DoParallelBegin
    \/ DoParallelEnd
    \/ \E t \in Thr : SGrab(t)
    \/ \E t \in Thr : CountIteration(t)
    \/ \E t \in Thr : OutputIteration(t)
    \/ \E t \in Thr : WorkerCall(t)

SpecFlow == SearchInit /\ [][FlowNext]_vars


(***************************************************************************)
(* What the claims speak about.                                            *)
(***************************************************************************)
RECURSIVE AccumulateParts(_, _, _, _)
\* the sum over the parts p .. P-1 of bulk_count of the hashes of hs that belong to the
\* part, each counted in the stored index of that part
AccumulateParts(d, P, hs, p) ==
    IF p >= P THEN ZeroCounts
    ELSE AddCounts(bulk_count(PartIndex(d, P, p), SelectSeqBy(hs, P, p)),
                   AccumulateParts(d, P, hs, p + 1))

\* the counts of record r in the flow of the current run
OwnCounts(r) ==
    IF s_flow = "singular" THEN bulk_count(FlatIndex(s_data), RecMin(r))
    ELSE AccumulateParts(s_data, s_parts, RecMin(r), 0)

OwnThreshold(r) == ThresholdGet(Len(RecMin(r)))
OwnHits(r) == {b \in Bins : OwnCounts(r)[b] >= OwnThreshold(r)}
FlatHits(r) == {b \in Bins : bulk_count(FlatIndex(s_data), RecMin(r))[b] >= OwnThreshold(r)}

Headers == {e \in out : e.by = 0}
RecordLines == {e \in out : e.by # 0}
BinsOf(text) == {text[j].v : j \in {j \in DOMAIN text : text[j].k = "bin"}}

\* C1: in the partitioned flow the accumulator an iteration compares with the threshold
\* and emits for its record is the sum, over all parts, of the counts of that record's
\* own minimisers of the part
C1_AccumulatorIsOwnSum ==
    s_flow = "partitioned" =>
        \A e \in RecordLines : e.acc = AccumulateParts(s_data, s_parts, RecMin(e.by), 0)

\* C2: every line handed to the output is one record's id, a tab, that record's hit
\* bins and one newline, and nothing else
C2_LinesAreWhole ==
    \A e \in RecordLines :
        \E r \in 1 .. s_nrec :
            /\ Len(e.text) >= 3
            /\ e.text[1] = IdTok(r)
            /\ e.text[2] = TabTok
            /\ e.text[Len(e.text)] = NlTok
            /\ \A j \in 3 .. Len(e.text) - 1 : e.text[j].k \in {"bin", "comma"}
            /\ BinsOf(e.text) = OwnHits(r)

\* C4: the bins the partitioned flow reports for a record are the bins the flat flow
\* reports for it over the un-partitioned index of the same data
C4_PartitionedEqualsFlat ==
    s_flow = "partitioned" => \A e \in RecordLines : BinsOf(e.text) = FlatHits(e.by)

\* C6: a completed run has written exactly one record line per input record, carrying
\* that record's id, and no other record line
C6_OneLinePerRecord ==
    s_pc = "done" =>
        /\ Cardinality(RecordLines) = s_nrec
        /\ \A r \in 1 .. s_nrec :
              Cardinality({e \in RecordLines : e.text # <<>> /\ e.text[1] = IdTok(r)}) = 1

\* has the run passed the point of its first chunk where the header is written?
PastHeader == s_chunk >= 1 /\ ~(s_chunk = 1 /\ s_pc \in {"get", "header"})

\* C7: within a run the header is written exactly once, in the first chunk, after the
\* load has completed and before any record line; later chunks do not write it
C7_HeaderOnceInFirstChunk ==
    /\ Cardinality(Headers) <= 1
    /\ PastHeader => Cardinality(Headers) = 1
    /\ \A e \in Headers : e.chunk = 1 /\ e.pos = 0
    /\ s_pc = "header" => s_load = "done"

\* C8: a run that follows another run in the same process and processes a chunk
\* writes its own header
C8_LaterRunWritesHeader ==
    (s_run >= 2 /\ PastHeader) => Headers # {}

\* C9: the threshold of a record is threshold.get of the number of all its minimisers,
\* and a bin is in the record's line if and only if its count reaches that threshold
C9_ThresholdAndHits ==
    \A e \in RecordLines :
        /\ e.tau = ThresholdGet(Len(RecMin(e.by)))
        /\ BinsOf(e.text) = {b \in Bins : e.acc[b] >= e.tau}

\* what the index must hold for the workers that run now
ContentToRead == IF s_flow = "singular" THEN "flat" ELSE part

\* C10: a worker (or the main thread, for the header and the size of counts) reads the
\* index only when the load of the content it is meant to read has completed, and no
\* load runs while a worker is active
C10_LoadHappensBeforeRead ==
    /\ \A t \in Thr : s_thr[t].pc # "idle" => (s_load = "done" /\ s_loaded = ContentToRead)
    /\ s_pc \in {"header", "counts"} => s_load = "done"
    /\ s_load = "loading" => \A t \in Thr : s_thr[t].pc = "idle"

\* a worker reads part 1 in the second chunk of a partitioned run
C10_Witness ==
    /\ s_flow = "partitioned" /\ s_chunk = 2 /\ part = 1
    /\ \E t \in Thr : s_thr[t].pc # "idle"

\* the answer of the built index (or indexes) to a query with the hashes hs
RECURSIVE BuiltCount(_, _)
BuiltCount(hs, p) ==
    IF b_parts = 0 THEN bulk_count(b_built[1], hs)
    ELSE IF p >= b_parts THEN ZeroCounts
    ELSE AddCounts(bulk_count(b_built[p + 1], SelectSeqBy(hs, b_parts, p)), BuiltCount(hs, p + 1))

\* do bins i and j have bits in the same word of the bit matrix?
ShareWord(i, j) == \E r \in 0 .. NumRows - 1 : WordOf(r, i) = WordOf(r, j)
Filling(t) == b_thr[t].pc \in {"read", "write"}

\* C3: bins with bits in the same word are never filled by two threads at once, and
\* the returned index has every inserted bit
C3_NoSharedWordRace ==
    /\ \A t1, t2 \in Thr :
          (t1 # t2 /\ Filling(t1) /\ Filling(t2)) => ~ShareWord(b_thr[t1].i, b_thr[t2].i)
    /\ b_pc = "done" =>
          \A p \in 1 .. Len(b_built) : b_built[p] = FillBins(EmptyIbf, b_data, b_parts, p - 1, 0)

\* C5: after the build, a query with the one minimiser m of user bin u counts at
\* least 1 for bin u
C5_InsertedIsFound ==
    b_pc = "done" =>
        \A u \in Bins : \A j \in DOMAIN BinFile(b_data, u) :
            BuiltCount(<<BinFile(b_data, u)[j]>>, 0)[u] >= 1

Range(q) == {q[j] : j \in DOMAIN q}

\* the loop of the latest construct call has ended
LoopEnded == b_built # <<>> /\ b_pc \in {"call", "done"}

\* C11: the worker is invoked once for every element zipped_view[i], i a bin index, and
\* for nothing else; an emplace call for bin u carries a hash of the files of user bin
\* u, and every bit set in the index is a bit that a hash of bin u sets in bin u
C11_WorkerOncePerBin ==
    /\ \A i, j \in Bins : b_calls[<<i, j>>] <= (IF i = j THEN 1 ELSE 0)
    /\ LoopEnded => \A i \in Bins : b_calls[Zipped(i)] = 1
    /\ \A e \in b_ins : e[2] \in Bins /\ e[3] \in Range(BinFile(b_data, e[2]))
    /\ \A w \in Words : \A c \in b_index[w] :
          \E u \in Bins : \E h \in Range(BinFile(b_data, u)) : \E k \in 0 .. HashFns - 1 :
              w = WordOf(Row(k, h), u) /\ c = BitOf(Row(k, h), u)

\* a build with two threads has returned with every bin handled
C11_Witness ==
    /\ b_pc = "done" /\ b_threads >= 2 /\ b_built # <<>>
    /\ \A i \in Bins : b_calls[Zipped(i)] = 1

\* C12: in a partitioned build the emplace calls made for part p are exactly the
\* triples (p, u, h) with h a hash of the files of user bin u and hash_partition(h) = p,
\* so that once all parts are built every hash of every bin was inserted for exactly
\* one part, into bin u
C12_PartReceivesItsHashes ==
    b_parts >= 2 =>
        /\ \A e \in b_ins :
              /\ e[3] \in Range(BinFile(b_data, e[2]))
              /\ hash_partition(e[3], b_parts) = e[1]
        /\ \A p \in 0 .. b_parts - 1 :
              (p < b_part \/ b_pc = "done") =>
                  \A u \in Bins : \A h \in Range(BinFile(b_data, u)) :
                      hash_partition(h, b_parts) = p => <<p, u, h>> \in b_ins
        /\ b_pc = "done" =>
              \A u \in Bins : \A h \in Range(BinFile(b_data, u)) :
                  Cardinality({e \in b_ins : e[2] = u /\ e[3] = h}) = 1

\* a partitioned build has built all its parts and each part received a hash
C12_Witness ==
    /\ b_pc = "done" /\ b_parts >= 2
    /\ \A p \in 0 .. b_parts - 1 : \E e \in b_ins : e[1] = p

(***************************************************************************)
(* compute_minimiser: the loop over the bins that writes, for every bin,   *)
(* a .minimiser and a .header file under the guard of an .in_progress      *)
(* file.  The bins' first files have distinct stems, so that every bin has *)
(* its own three output paths.  A call can be killed at any point and      *)
(* compute_minimiser be called again on the same directory.                *)
(***************************************************************************)
MaxCutoff == 2
MaxCalls == 258       \* most calls of the counting lambda with one hash
FileLen == 3

\* the largest count the table stores, and the number of values of its uint8_t
SatMax == 254
ByteMod == 256

\* the stream of hashes reader.for_each_hash yields for the files of bin u
BinSeq(d, u) == [j \in 1 .. FileLen |-> ((u + d) * j) % (MaxHash + 1)]

\* cutoffs.get(file_name): decided by the size class of the bin's first file
Cutoff(u) == 1 + ((p_size + u) % MaxCutoff)

\* an increment of the uint8_t entry without the minimum
BumpWrap(v) == (v + 1) % ByteMod

\* minimiser_table[hash] = std::min<uint8_t>(254u, minimiser_table[hash] + 1): both
\* arguments are converted to uint8_t
Bump(v) == Min(SatMax, (v + 1) % ByteMod)

RECURSIVE CountTable(_)
\* minimiser_table after for_each_hash over hs (0: the hash has no entry)
CountTable(hs) ==
    IF hs = <<>> THEN [h \in Hashes |-> 0]
    ELSE LET tb == CountTable(SubSeq(hs, 1, Len(hs) - 1))
         IN [tb EXCEPT ![hs[Len(hs)]] = Bump(@)]

\* a table walk that writes every entry, whatever its count
RECURSIVE KeptAll(_, _, _)
KeptAll(tb, cutoff, h) ==
    IF h > MaxHash THEN <<>>
    ELSE (IF tb[h] >= 1 THEN <<h>> ELSE <<>>) \o KeptAll(tb, cutoff, h + 1)

RECURSIVE Kept(_, _, _)
\* the walk over the table's entries from hash h on: the hashes with
\* occurrences >= cutoff, in the table's order (modelled as ascending)
Kept(tb, cutoff, h) ==
    IF h > MaxHash THEN <<>>
    ELSE (IF tb[h] >= 1 /\ tb[h] >= cutoff THEN <<h>> ELSE <<>>) \o Kept(tb, cutoff, h + 1)

\* the check that ignores the progress file
already_done_without_progress(u) == p_min[u].ex /\ p_hdr[u].ex

\* bool const already_done
already_done(u) == p_min[u].ex /\ p_hdr[u].ex /\ ~p_prog[u]

\* an iteration that creates no progress file
MarkNothing(u) == p_prog

\* std::ofstream outfile{progress_file, std::ios::binary}
MarkProgress(u) == [p_prog EXCEPT ![u] = TRUE]

\* position of a thread that is about to handle bin i of its chunk [i, hi)
AtPrepBin(i, hi) ==
    IF i >= hi THEN IdlePrep
    ELSE [pc |-> "check", i |-> i, hi |-> hi, todo |-> <<>>, count |-> 0]

prepcfg == <<p_data, p_threads, p_size>>
prepfiles == <<p_min, p_hdr, p_prog, p_list>>

\* compute_minimiser is called (again) with the same arguments
StartPrepare ==
    /\ p_pc \in {"idle", "done", "killed"}
    /\ p_prev' = IF p_pc = "idle" THEN "none" ELSE p_pc
    /\ p_pc' = "parallel"
    /\ p_next' = 0
    /\ p_thr' = [t \in Thr |-> IdlePrep]
    /\ p_check' = [u \in Bins |-> NoCheck]
    /\ p_wrote' = [u \in Bins |-> {}]
    /\ UNCHANGED <<prepcfg, prepfiles, bvars, svars, tablev>>

\* a thread of the team takes the next chunk of the loop over the bins
PGrab(t) ==
    /\ p_pc = "parallel"
    /\ t <= p_threads
    /\ p_thr[t].pc = "idle"
    /\ \A u \in 1 .. t - 1 : p_thr[u].pc # "idle"
    /\ p_next < NumBins
    /\ LET q == GuidedChunk(NumBins - p_next, p_threads) IN
        /\ p_next' = p_next + q
        /\ p_thr' = [p_thr EXCEPT ![t] = AtPrepBin(p_next, p_next + q)]
    /\ UNCHANGED <<prepcfg, p_prev, p_pc, prepfiles, p_check, p_wrote, bvars, svars, tablev>>

\* the paths, the already_done check and, if the bin is not done, the creation of the
\* progress file and the count of the bin's hashes
PCheck(t) ==
    /\ p_pc = "parallel"
    /\ p_thr[t].pc = "check"
    /\ LET u == p_thr[t].i
           done == already_done(u)
       IN /\ p_check' = [p_check EXCEPT ![u] = [seen |-> TRUE, skip |-> done,
                            min |-> p_min[u].ex, hdr |-> p_hdr[u].ex, prog |-> p_prog[u]]]
          /\ IF done
             THEN /\ p_thr' = [p_thr EXCEPT ![t] = AtPrepBin(u + 1, p_thr[t].hi)]
                  /\ UNCHANGED p_prog
             ELSE /\ p_prog' = MarkProgress(u)
                  /\ p_thr' = [p_thr EXCEPT ![t] = [@ EXCEPT !.pc = "open_min",
                        !.todo = Kept(CountTable(BinSeq(p_data, u)), Cutoff(u), 0),
                        !.count = 0]]
    /\ UNCHANGED <<prepcfg, p_prev, p_pc, p_min, p_hdr, p_list, p_next, p_wrote,
                   bvars, svars, tablev>>

\* std::ofstream outfile{minimiser_file, std::ios::binary}: the file exists and is empty
POpenMin(t) ==
    /\ p_pc = "parallel"
    /\ p_thr[t].pc = "open_min"
    /\ LET u == p_thr[t].i IN
        /\ p_min' = [p_min EXCEPT ![u] = [ex |-> TRUE, data |-> <<>>]]
        /\ p_wrote' = [p_wrote EXCEPT ![u] = @ \cup {"minimiser"}]
        /\ p_check' = [p_check EXCEPT ![u] = [NoCheck EXCEPT !.seen = TRUE]]
    /\ p_thr' = [p_thr EXCEPT ![t].pc = "write_min"]
    /\ UNCHANGED <<prepcfg, p_prev, p_pc, p_hdr, p_prog, p_list, p_next,
                   bvars, svars, tablev>>

\* outfile.write(&hash, sizeof(hash)); ++count; for the next entry that reaches the cutoff
PWriteMin(t) ==
    /\ p_pc = "parallel"
    /\ p_thr[t].pc = "write_min"
    /\ p_thr[t].todo # <<>>
    /\ LET u == p_thr[t].i IN
        p_min' = [p_min EXCEPT ![u].data = Append(@, Head(p_thr[t].todo))]
    /\ p_thr' = [p_thr EXCEPT ![t].todo = Tail(@), ![t].count = @ + 1]
    /\ UNCHANGED <<prepcfg, p_prev, p_pc, p_hdr, p_prog, p_list, p_next, p_check,
                   p_wrote, bvars, svars, tablev>>

\* a header opened by an iteration that removes its progress file at once
POpenHdrUnmarked(t) ==
    /\ p_pc = "parallel"
    /\ p_thr[t].pc = "write_min"
    /\ p_thr[t].todo = <<>>
    /\ LET u == p_thr[t].i IN
        /\ p_hdr' = [p_hdr EXCEPT ![u] = [ex |-> TRUE, line |-> <<>>]]
        /\ p_wrote' = [p_wrote EXCEPT ![u] = @ \cup {"header"}]
        /\ p_prog' = [p_prog EXCEPT ![u] = FALSE]
    /\ p_thr' = [p_thr EXCEPT ![t].pc = "write_hdr"]
    /\ UNCHANGED <<prepcfg, p_prev, p_pc, p_min, p_list, p_next, p_check,
                   bvars, svars, tablev>>

\* the minimiser file is closed; std::ofstream headerfile{header_file}
POpenHdr(t) ==
    /\ p_pc = "parallel"
    /\ p_thr[t].pc = "write_min"
    /\ p_thr[t].todo = <<>>
    /\ LET u == p_thr[t].i IN
        /\ p_hdr' = [p_hdr EXCEPT ![u] = [ex |-> TRUE, line |-> <<>>]]
        /\ p_wrote' = [p_wrote EXCEPT ![u] = @ \cup {"header"}]
    /\ p_thr' = [p_thr EXCEPT ![t].pc = "write_hdr"]
    /\ UNCHANGED <<prepcfg, p_prev, p_pc, p_min, p_prog, p_list, p_next, p_check,
                   bvars, svars, tablev>>

\* headerfile << shape << '\t' << window_size << '\t' << cutoff << '\t' << count << '\n'
\* (shape and window size are the call's arguments, the same in every header)
PWriteHdr(t) ==
    /\ p_pc = "parallel"
    /\ p_thr[t].pc = "write_hdr"
    /\ LET u == p_thr[t].i IN
        p_hdr' = [p_hdr EXCEPT ![u].line = <<Cutoff(u), p_thr[t].count>>]
    /\ p_thr' = [p_thr EXCEPT ![t].pc = "remove"]
    /\ UNCHANGED <<prepcfg, p_prev, p_pc, p_min, p_prog, p_list, p_next, p_check,
                   p_wrote, bvars, svars, tablev>>

\* an iteration that leaves its progress file behind
PRemoveNot(t) ==
    /\ p_pc = "parallel"
    /\ p_thr[t].pc = "remove"
    /\ p_thr' = [p_thr EXCEPT ![t] = AtPrepBin(p_thr[t].i + 1, p_thr[t].hi)]
    /\ UNCHANGED <<prepcfg, p_prev, p_pc, prepfiles, p_next, p_check, p_wrote,
                   bvars, svars, tablev>>

\* std::filesystem::remove(progress_file)
PRemove(t) ==
    /\ p_pc = "parallel"
    /\ p_thr[t].pc = "remove"
    /\ p_prog' = [p_prog EXCEPT ![p_thr[t].i] = FALSE]
    /\ p_thr' = [p_thr EXCEPT ![t] = AtPrepBin(p_thr[t].i + 1, p_thr[t].hi)]
    /\ UNCHANGED <<prepcfg, p_prev, p_pc, p_min, p_hdr, p_list, p_next, p_check,
                   p_wrote, bvars, svars, tablev>>

\* end of the parallel loop; write_list_file; compute_minimiser returns
PReturn ==
    /\ p_pc = "parallel"
    /\ p_next = NumBins
    /\ \A t \in Thr : p_thr[t].pc = "idle"
    /\ p_list' = TRUE
    /\ p_pc' = "done"
    /\ UNCHANGED <<prepcfg, p_prev, p_min, p_hdr, p_prog, p_next, p_thr, p_check,
                   p_wrote, bvars, svars, tablev>>

\* the process is interrupted inside the loop: its threads are gone, the files stay
PKill ==
    /\ p_pc = "parallel"
    /\ p_pc' = "killed"
    /\ p_next' = 0
    /\ p_thr' = [t \in Thr |-> IdlePrep]
    /\ p_check' = [u \in Bins |-> NoCheck]
    /\ p_wrote' = [u \in Bins |-> {}]
    /\ UNCHANGED <<prepcfg, p_prev, prepfiles, bvars, svars, tablev>>

PrepareInit ==
    /\ p_data \in 0 .. NumDatasets - 1
    /\ p_threads \in 1 .. MaxThreads
    /\ p_size \in 0 .. MaxCutoff - 1
    /\ PrepIdle
    /\ s_data = p_data /\ s_threads = 1 /\ s_parts = 2
    /\ SearchIdle
    /\ b_data = p_data /\ b_threads = 1 /\ b_parts = 0
    /\ BuildIdle

PrepareNext ==
    \/ StartPrepare
    \/ \E t \in Thr : PGrab(t)
    \/ \E t \in Thr : PCheck(t)
    \/ \E t \in Thr : POpenMin(t)
    \/ \E t \in Thr : PWriteMin(t)
    \/ \E t \in Thr : POpenHdr(t)
    \/ \E t \in Thr : PWriteHdr(t)
    \/ \E t \in Thr : PRemove(t)
    \/ PReturn
    \/ PKill

SpecPrepare == PrepareInit /\ [][PrepareNext]_vars

\* the lambda given to reader.for_each_hash is called with hash h
CountHash(h) ==
    /\ hash_calls[h] < MaxCalls
    /\ minimiser_table' = [minimiser_table EXCEPT ![h] = Bump(@)]
    /\ hash_calls' = [hash_calls EXCEPT ![h] = @ + 1]
    /\ UNCHANGED <<bvars, svars, prepcfg, p_prev, p_pc, prepfiles, p_next, p_thr,
                   p_check, p_wrote>>

\* one iteration of compute_minimiser has constructed its empty table
CountInit ==
    /\ p_data = 0 /\ p_threads = 1 /\ p_size = 0
    /\ PrepIdle
    /\ s_data = 0 /\ s_threads = 1 /\ s_parts = 2
    /\ SearchIdle
    /\ b_data = 0 /\ b_threads = 1 /\ b_parts = 0
    /\ BuildIdle

CountNext == \E h \in CountedHashes : CountHash(h)

SpecCount == CountInit /\ [][CountNext]_vars

\* is some thread inside the iteration of bin u?
Working(u) == \E t \in Thr : p_thr[t].pc # "idle" /\ p_thr[t].i = u

\* C13: an iteration skips its bin if and only if, at its check, the .minimiser and
\* the .header file exist and the .in_progress file does not; a call that returns has
\* checked every bin and has rewritten both outputs of every bin it did not skip
C13_SkipsExactlyFinishedBins ==
    /\ \A u \in Bins :
          p_check[u].seen =>
              (p_check[u].skip <=> (p_check[u].min /\ p_check[u].hdr /\ ~p_check[u].prog))
    /\ p_pc = "done" =>
          \A u \in Bins :
              /\ p_check[u].seen
              /\ p_wrote[u] = IF p_check[u].skip THEN {} ELSE {"minimiser", "header"}

\* an iteration has found all three files of its bin and goes on to recompute it,
\* after another bin was skipped
C13_Witness ==
    /\ p_pc = "parallel"
    /\ \E u \in Bins :
          /\ p_check[u].min /\ p_check[u].hdr /\ p_check[u].prog /\ ~p_check[u].skip
          /\ \E t \in Thr : p_thr[t].i = u /\ p_thr[t].pc = "open_min"
    /\ \E u \in Bins : p_check[u].skip

\* what an uninterrupted call leaves in the .minimiser file of bin u
FullMinimiser(u) == Kept(CountTable(BinSeq(p_data, u)), Cutoff(u), 0)

\* C14: whenever a call returns, after whatever interrupted calls, every bin has the
\* .minimiser file and the matching .header file of an uninterrupted call and no
\* .in_progress file
C14_RestartCompletes ==
    p_pc = "done" =>
        \A u \in Bins :
            /\ p_min[u] = [ex |-> TRUE, data |-> FullMinimiser(u)]
            /\ p_hdr[u] = [ex |-> TRUE, line |-> <<Cutoff(u), Len(FullMinimiser(u))>>]
            /\ ~p_prog[u]

\* a call has returned that followed an interrupted call, skipped one bin and
\* recomputed another
C14_Witness ==
    /\ p_pc = "done" /\ p_prev = "killed"
    /\ \E u \in Bins : p_check[u].skip
    /\ \E u \in Bins : p_wrote[u] = {"minimiser", "header"}

\* number of occurrences of h in the stream hs
Occurrences(hs, h) == Cardinality({j \in DOMAIN hs : hs[j] = h})

\* C15: once an iteration has processed its bin, the .minimiser file holds exactly the
\* distinct hashes of the bin whose saturated number of occurrences reaches the bin's
\* cutoff, each once, and the header holds that cutoff and the number of values written
C15_FileHoldsFrequentMinimisers ==
    \A u \in Bins :
        (p_wrote[u] = {"minimiser", "header"} /\ ~Working(u)) =>
            LET data == p_min[u].data IN
            /\ \A i, j \in DOMAIN data : i # j => data[i] # data[j]
            /\ Range(data) = {h \in Hashes :
                   LET n == Occurrences(BinSeq(p_data, u), h)
                   IN n >= 1 /\ Min(n, SatMax) >= Cutoff(u)}
            /\ p_hdr[u].line = <<Cutoff(u), Len(data)>>

\* an iteration has processed a bin of which some hash is below the cutoff and some is not
C15_Witness ==
    \E u \in Bins :
        /\ p_wrote[u] = {"minimiser", "header"} /\ ~Working(u)
        /\ p_min[u].data # <<>>
        /\ \E h \in Range(BinSeq(p_data, u)) : h \notin Range(p_min[u].data)

\* C16: at every point of a call that follows a completed call, every bin has the
\* complete .minimiser and .header file the completed call left and no .in_progress
\* file, the call has opened no output for writing and has skipped every bin it
\* checked; when it returns it has checked every bin
C16_SecondRunWritesNothing ==
    p_prev = "done" =>
        \A u \in Bins :
            /\ p_min[u] = [ex |-> TRUE, data |-> FullMinimiser(u)]
            /\ p_hdr[u] = [ex |-> TRUE, line |-> <<Cutoff(u), Len(FullMinimiser(u))>>]
            /\ ~p_prog[u]
            /\ p_wrote[u] = {}
            /\ p_check[u].seen => p_check[u].skip
            /\ p_pc = "done" => p_check[u].seen

\* a call that followed a completed call has returned
C16_Witness ==
    /\ p_pc = "done" /\ p_prev = "done" /\ p_threads >= 2
    /\ \A u \in Bins : p_min[u].ex /\ p_min[u].data # <<>>

\* the line of record r: its id, a tab, its hit bins and the newline
OwnLine(r) == CloseLine(<<IdTok(r), TabTok>> \o HitTokens(OwnCounts(r), OwnThreshold(r), 0))

\* C17: the set of record lines of a completed run depends on the index and the query
\* file only: for every thread count and schedule it is the set of the records' lines
C17_OutputIsDeterministic ==
    s_pc = "done" => {e.text : e \in RecordLines} = {OwnLine(r) : r \in 1 .. s_nrec}

\* id, tab, then bins in increasing order, each but the last followed by one comma,
\* then one newline
WellFormed(text) ==
    /\ Len(text) >= 3
    /\ text[1].k = "id"
    /\ text[2] = TabTok
    /\ text[Len(text)] = NlTok
    /\ Len(text) = 3 \/ Len(text) % 2 = 0
    /\ \A j \in 3 .. Len(text) - 1 :
          IF j % 2 = 1 THEN text[j].k = "bin" ELSE text[j] = CommaTok
    /\ \A j \in 3 .. Len(text) - 3 : j % 2 = 1 => text[j].v < text[j + 2].v

\* C18: every record line is id, tab, the hit bins in increasing order separated by
\* single commas without a trailing comma, newline; without a hit it is id, tab, newline
C18_LineForm ==
    \A e \in RecordLines : WellFormed(e.text)

\* the parts 0 .. n-1 in increasing order
PartsUpTo(n) == [j \in 1 .. n |-> j - 1]

\* the task that has to count part p
TaskOf(p) == IF p < s_parts - 1 THEN "count_task" ELSE "output_task"

\* the chunk's output_task has returned
ChunkEnded == s_chunk >= 1 /\ s_pc = "loop"

\* C19: in every chunk of the partitioned flow the parts are loaded once each, in
\* increasing order from 0, and none outside [0, P); every record of the chunk is
\* counted at most once per part, after that part was loaded, by count_task for the
\* parts below P-1 and by output_task for part P-1; when the chunk ends all P parts
\* were loaded and every record was counted once for every part
C19_EachPartOncePerRecord ==
    s_flow = "partitioned" =>
        /\ Len(s_loads) <= s_parts
        /\ s_loads = PartsUpTo(Len(s_loads))
        /\ \A c \in DOMAIN s_counted :
              /\ s_counted[c] <= 1
              /\ s_counted[c] = 1 =>
                    /\ c[2] < Len(s_loads)
                    /\ c[3] < Len(records)
                    /\ c[1] = TaskOf(c[2])
        /\ ChunkEnded =>
              /\ s_loads = PartsUpTo(s_parts)
              /\ \A p \in 0 .. s_parts - 1 : \A i \in 0 .. Len(records) - 1 :
                    s_counted[<<TaskOf(p), p, i>>] = 1

\* the second chunk of a run with three parts and two threads has ended
C19_Witness ==
    /\ s_flow = "partitioned" /\ ChunkEnded /\ s_chunk = 2
    /\ s_parts >= 3 /\ s_threads >= 2 /\ records # <<>>
    /\ s_counted[<<"count_task", 1, 0>>] = 1

\* C20: in the partitioned flow, between an iteration's steps no other thread touches
\* its scratch state: when it counts, the minimiser vector holds the minimisers of its
\* own record; when it adds, the agent's buffer holds the counts of its own record's
\* minimisers of the part and counter_id is the slot of its own iteration
C20_ScratchIsOwn ==
    \A t \in Thr :
        LET own == bulk_count(s_index, SelectSeqBy(RecMin(Rec(t)), s_parts, part)) IN
        /\ s_thr[t].pc \in {"c_bulk", "o_bulk"} => minimiser = RecMin(Rec(t))
        /\ s_thr[t].pc \in {"c_add", "o_add"} =>
              /\ s_buffer = own
              /\ counter_id = s_thr[t].i
        /\ s_thr[t].pc \in {"o_thr", "o_hits"} =>
              /\ minimiser = RecMin(Rec(t))
              /\ counter_id = s_thr[t].i

\* a build on its own: the search side stays idle
\* control is at assert(part == arguments.parts - 1u): the first count_task and the
\* loop for (; part < arguments.parts - 1u; ++part) are over, the last load_index has
\* not started
AtAssert == s_flow = "partitioned" /\ s_pc = "load" /\ ~(part < s_parts - 1)

\* C21: whenever control reaches the assertion after the count loop of
\* search_partitioned_ibf, part == arguments.parts - 1 holds, in every chunk and for
\* every partition count of a partitioned index
C21_AssertionHolds ==
    AtAssert => part = s_parts - 1

\* the assertion is reached in the second chunk after the loop ran for a middle part
C21_Witness ==
    /\ AtAssert /\ s_chunk = 2 /\ s_parts = 3 /\ part = 2
    /\ s_loads = <<0, 1>>

\* C22: in search_singular_ibf the asynchronous load has completed whenever a worker
\* of a chunk runs, and cereal_future.get() is never called on a future whose result
\* was already taken, whatever the number of chunks
C22_FutureTakenOnce ==
    s_flow = "singular" =>
        /\ \A t \in Thr : s_thr[t].pc # "idle" => s_load = "done"
        /\ s_pc = "get" => s_fvalid
        /\ s_pc # "aborted"

\* the bin's outputs are both there and complete for the bin's input and cutoff
OutputsComplete(u) ==
    /\ p_min[u] = [ex |-> TRUE, data |-> FullMinimiser(u)]
    /\ p_hdr[u] = [ex |-> TRUE, line |-> <<Cutoff(u), Len(FullMinimiser(u))>>]

\* an iteration is between the opening of the bin's .minimiser file and the removal of
\* the bin's .in_progress file
Rewriting(u) ==
    \E t \in Thr : /\ p_thr[t].i = u
                   /\ p_thr[t].pc \in {"open_min", "write_min", "write_hdr", "remove"}

\* C23: at every point of a prepare run, for every bin: while an iteration rewrites
\* the bin's outputs, and whenever an output of the bin exists without both outputs
\* being complete, the bin's .in_progress file exists; so it is created before the
\* first output byte and is gone only once both outputs are completely written
C23_ProgressMarksIncomplete ==
    \A u \in Bins :
        /\ Rewriting(u) => p_prog[u]
        /\ p_wrote[u] # {} => (p_prog[u] \/ OutputsComplete(u))
        /\ ((p_min[u].ex \/ p_hdr[u].ex) /\ ~OutputsComplete(u)) => p_prog[u]

\* in a call restarted after a kill one bin is finished and unmarked while another
\* has its .minimiser file written, its header opened and still empty, and is marked
C23_Witness ==
    /\ p_prev = "killed" /\ p_pc = "parallel"
    /\ \E u, w \in Bins :
          /\ u # w
          /\ OutputsComplete(u) /\ ~p_prog[u] /\ p_wrote[u] = {"minimiser", "header"}
          /\ p_min[w].data # <<>> /\ p_hdr[w] = [ex |-> TRUE, line |-> <<>>]
          /\ p_prog[w] /\ Rewriting(w)

\* C24: after any number of occurrences of a minimiser its count in the table is the
\* smaller of the true number of occurrences and 254: it never exceeds 254 and never
\* goes back to a smaller value
C24_CountSaturates ==
    \A h \in CountedHashes :
        /\ minimiser_table[h] = Min(hash_calls[h], SatMax)
        /\ minimiser_table[h] <= SatMax

\* one hash has occurred more often than the uint8_t entry has values, another less
\* often than 254 times
C24_Witness ==
    /\ hash_calls[0] > ByteMod /\ minimiser_table[0] = SatMax
    /\ hash_calls[1] = 253 /\ minimiser_table[1] = 253

BuildStart ==
    /\ BuildInit
    /\ s_data = b_data
    /\ s_threads = 1
    /\ s_parts = 2
    /\ SearchIdle
    /\ p_data = b_data /\ p_threads = 1 /\ p_size = 0
    /\ PrepIdle

SpecBuild == BuildStart /\ [][BuildNext]_vars

SpecSearch == SearchInit /\ [][SearchNext]_vars


====
